---- MODULE Spec2Model ----
(***************************************************************************)
(* Model of napi/src/sys/bindings.cc: the two entry points                 *)
(* extras_open_callback_scope and extras_close_callback_scope, which       *)
(* bracket a callback with a node::CallbackScope.                          *)
(*                                                                         *)
(* The program state is the heap of CallbackScope objects made by `new`,   *)
(* the caller's output slot, and the state of the host runtime that the    *)
(* two functions reach through their calls: the current context, the       *)
(* script-visible objects, the async contexts and the runtime's            *)
(* async-context stack, which the CallbackScope constructor pushes and     *)
(* its destructor pops.  Both entry points are synchronous and run on the  *)
(* runtime's one thread, so each call is one atomic action.                *)
(***************************************************************************)
EXTENDS Integers, Sequences, FiniteSets

\* ------------------------------------------------------------- bounds
\* At most this many CallbackScope objects are allocated at once.
MaxScopes == 2
\* At most this many calls of one run break the documented preconditions: an
\* open without a current context, a close of anything but the innermost
\* open scope.
MaxViolations == 1

\* ---------------------------------------------------------- constants
\* The null pointer: the value of an extras_callback_scope that designates
\* no scope.
NULL == 0

\* Addresses `new` can return.
Addr == 1..MaxScopes

\* The empty v8::Local<v8::Context>: no context is entered.
NoContext == "none"
Contexts == {"ctx", NoContext}

\* Script values.  An object has an identity; primitives do not.
ObjectValue(i) == [type |-> "object", id |-> i]
NumberValue == [type |-> "number", id |-> 0]
UndefinedValue == [type |-> "undefined", id |-> 0]
IsObject(val) == val.type = "object"
\* A Number object that wraps a primitive number.  The model keeps no
\* identity for wrappers: every one of them is this value.
BoxedNumber == [type |-> "object", id |-> -1]

\* The values behind the napi_value handles the caller holds: handle i
\* designates HandleSlots[i].
HandleSlots == << ObjectValue(1), NumberValue, UndefinedValue >>
NapiValues == DOMAIN HandleSlots
InitialObjects == { HandleSlots[i] : i \in { j \in NapiValues : IsObject(HandleSlots[j]) } }

\* The napi_async_context handles the runtime created: each is a pointer to
\* a node::async_context {async_id, trigger_async_id}.
AsyncContexts == {"A1", "A2"}
InitialContexts ==
  [a \in AsyncContexts |->
     IF a = "A1" THEN [async_id |-> 1, trigger_async_id |-> 0]
                 ELSE [async_id |-> 2, trigger_async_id |-> 1]]

\* The runtime's own frame that may be on the async-context stack before the
\* first open.
RootEntry == [async |-> [async_id |-> 0, trigger_async_id |-> 0],
              resource |-> ObjectValue(0)]

\* A freed or never-constructed CallbackScope.
NoScope == [context |-> NoContext,
            resource |-> UndefinedValue,
            async |-> [async_id |-> 0, trigger_async_id |-> 0]]

VARIABLES
  context,      \* the isolate's current context (NoContext: none resolvable)
  heap,         \* the script-visible objects that exist
  contexts,     \* the node::async_context each napi_async_context points to
  asyncStack,   \* the runtime's async-context stack, top last
  allocated,    \* addresses of the CallbackScope objects now allocated
  scopes,       \* the contents of each address
  slot,         \* the caller's output slot, *result
  status,       \* "running"; "aborted": the engine ended the process with a
                \* fatal error; "crashed": an undefined call killed the process
  \* history (not program state)
  pushedBy,     \* for each asyncStack entry, the scope whose constructor pushed it
  live,         \* the handles open returned and close has not yet taken, in order
  released,     \* the addresses delete ran on since they were last allocated
  misuse,       \* some close was given a handle that is not in live
  violations,   \* calls so far that broke a documented precondition
  last          \* the last call and its outcome

vars == << context, heap, contexts, asyncStack, allocated, scopes, slot, status,
           pushedBy, live, released, misuse, violations, last >>

\* ------------------------------------------------------------ helpers
Front(s) == SubSeq(s, 1, Len(s) - 1)
Top(s) == s[Len(s)]
Handles(l) == { l[i].handle : i \in DOMAIN l }
RemoveAt(s, i) == SubSeq(s, 1, i - 1) \o SubSeq(s, i + 1, Len(s))
IndexOf(l, h) == CHOOSE i \in DOMAIN l : l[i].handle = h

\* An entry of live: the handle, the arguments of its open, the stack as it
\* was before that open, whether every call since was an open or a close of
\* the then-innermost scope, and whether such a nested scope was closed.
NoEntry == [handle |-> NULL, async |-> "none", value |-> 0, pre |-> << >>,
            clean |-> FALSE, hadInner |-> FALSE]
NoCall == [op |-> "none", value |-> 0, handle |-> NULL, outcome |-> "none",
           inner |-> FALSE, wild |-> "no", entry |-> NoEntry]

\* An entry of live that is no longer properly nested keeps no snapshot.
Unclean(l) == [i \in DOMAIN l |-> [l[i] EXCEPT !.clean = FALSE, !.pre = << >>]]

\* --------------------------------------------------- the host runtime
\* bindings.cc reaches the runtime (V8 and Node) only through the calls
\* below; each operator is what the call does to the modelled state.  The
\* runtime's own code is not part of the repository: ToObject and
\* ToLocalChecked follow the V8 API, and the CallbackScope constructor and
\* destructor are a push and a pop of the top entry of the async-context
\* stack.

\* isolate->GetCurrentContext(): the entered context, or the empty handle.
GetCurrentContext == context

\* Mutant of V8LocalValueFromJsValue: the copy yields the bits of another
\* handle.
V8LocalValueWrongSlot(v) == IF v = Len(HandleSlots) THEN 1 ELSE v + 1

\* memcpy(&local, &v, sizeof(v)): the Local holds the bits of the napi_value,
\* so it designates the same handle slot.
V8LocalValueFromJsValue(v) == v

\* What a Local designates (operator-> on it).
Deref(local) == HandleSlots[local]

\* Value::ToObject(context): an object converts to itself; a number is
\* wrapped in a new Number object; undefined throws a TypeError and yields
\* the empty MaybeLocal.
ToObject(val) ==
  IF IsObject(val)
    THEN [empty |-> FALSE, object |-> val, created |-> {}]
  ELSE IF val.type = "number"
    THEN [empty |-> FALSE, object |-> BoxedNumber, created |-> { BoxedNumber }]
  ELSE [empty |-> TRUE, object |-> val, created |-> {}]

\* `new node::CallbackScope`: the addresses operator new may return.
NewAddresses(alloc) == Addr \ alloc

\* Mutant of ScopeEntry: the constructor is handed another async context.
ScopeEntryOtherContext(a, obj) ==
  [async |-> contexts[CHOOSE b \in AsyncContexts : b # a], resource |-> obj]

\* The entry the CallbackScope constructor pushes: the async context, copied
\* by value from *node_async_context, and the resource object.
ScopeEntry(a, obj) == [async |-> contexts[a], resource |-> obj]

\* The constructor's push onto the runtime's async-context stack.
PushAsyncContext(stack, e) == Append(stack, e)

\* Mutant of StoreResult: the output slot is set to the null pointer.
StoreNull(p) == NULL

\* The value written to *result: the address, reinterpreted as the handle.
StoreResult(p) == p

\* Mutant of DeleteRuns: close checks that the handle designates an allocated
\* scope and ignores it otherwise.
DeleteChecked(h) == h \in allocated

\* A delete-expression runs the destructor and the deallocation for every
\* pointer but the null pointer; it checks nothing else.
DeleteRuns(h) == h # NULL

\* Mutant of PopIndex: the destructor removes the entry its own scope pushed.
PopOwnEntry(owners, h) ==
  IF \E i \in DOMAIN owners : owners[i] = h
    THEN CHOOSE i \in DOMAIN owners : owners[i] = h /\ \A j \in DOMAIN owners : owners[j] = h => j <= i
    ELSE Len(owners)

\* The entry the destructor of scope h removes from the runtime's stack: the
\* top one, whichever scope pushed it.
PopIndex(owners, h) == Len(owners)

PopAsyncContext(stack, i) == IF stack = << >> THEN stack ELSE RemoveAt(stack, i)

\* Mutant of Free: the scope is never deallocated.
FreeNothing(alloc, h) == alloc

\* The deallocation of a scope that is allocated.
Free(alloc, h) == alloc \ {h}

\* ------------------------------------------------------------ history
\* h is the innermost scope still open.
Inner(h) == live # << >> /\ Top(live).handle = h

\* The history after a close of h: closing the innermost scope keeps the
\* other entries as they are; any other close marks every remaining entry as
\* no longer properly nested.
LiveAfterClose(h) ==
  IF Inner(h)
    THEN [i \in 1..(Len(live) - 1) |->
            IF i = Len(live) - 1
              THEN [live[i] EXCEPT !.hadInner = @ \/ (live[i].clean /\ Top(live).clean)]
              ELSE live[i]]
  ELSE IF h \in Handles(live)
    THEN Unclean(RemoveAt(live, IndexOf(live, h)))
  ELSE Unclean(live)

\* The record of a close: whether h was the innermost open scope, whether
\* delete ran on an address that holds no allocated scope (released before:
\* "twice"; never allocated: "never"), and h's entry of live, if any.
CloseCall(h, outcome) ==
  [op |-> "close", value |-> 0, handle |-> h, outcome |-> outcome,
   inner |-> Inner(h),
   wild |-> IF ~DeleteRuns(h) \/ h \in allocated THEN "no"
            ELSE IF h \in released THEN "twice" ELSE "never",
   entry |-> IF h \in Handles(live) THEN live[IndexOf(live, h)] ELSE NoEntry]

OpenCall(a, v, h, outcome) ==
  [op |-> "open", value |-> v, handle |-> h, outcome |-> outcome,
   inner |-> FALSE, wild |-> "no", entry |-> NoEntry]

\* ------------------------------------------------------------- state
Init ==
  /\ context \in Contexts
  /\ heap = InitialObjects
  /\ contexts = InitialContexts
  /\ asyncStack \in { << >>, << RootEntry >> }
  /\ pushedBy = [i \in DOMAIN asyncStack |-> NULL]
  /\ allocated = {}
  /\ scopes = [p \in Addr |-> NoScope]
  /\ slot = NULL
  /\ status = "running"
  /\ live = << >>
  /\ released = {}
  /\ misuse = FALSE
  /\ violations = 0
  /\ last = NoCall

\* ---------------------------------------------- extras_open_callback_scope
\* The process dies inside the call before line 24 is reached: nothing was
\* allocated, pushed or stored.
OpenDies(a, v, outcome) ==
  /\ status' = IF outcome = "abort" THEN "aborted" ELSE "crashed"
  /\ last' = OpenCall(a, v, NULL, outcome)
  /\ live' = Unclean(live)
  /\ UNCHANGED << context, heap, contexts, asyncStack, allocated, scopes, slot,
                  pushedBy, released, misuse >>
  /\ violations' = IF GetCurrentContext = NoContext THEN violations + 1 ELSE violations

\* Mutant of OpenAborts: the scope is allocated before the resource is
\* converted, so the abort leaves it behind.
OpenAbortsAfterNew(a, v) ==
  /\ status' = "aborted"
  /\ last' = OpenCall(a, v, NULL, "abort")
  /\ live' = Unclean(live)
  /\ allocated' = allocated \union { CHOOSE p \in Addr : p \notin allocated }
  /\ UNCHANGED << context, heap, contexts, asyncStack, scopes, slot,
                  pushedBy, released, misuse, violations >>

\* Line 22 when ToObject yields the empty MaybeLocal: ToLocalChecked ends the
\* process with a fatal error.
OpenAborts(a, v) == OpenDies(a, v, "abort")

\* Line 24: allocate the scope, run its constructor, store the handle.
OpenConstructs(a, v, ctx, maybe) ==
  /\ Cardinality(allocated) < MaxScopes
  /\ \E p \in NewAddresses(allocated) :
       /\ heap' = heap \union maybe.created
       /\ allocated' = allocated \union {p}
       /\ scopes' = [scopes EXCEPT ![p] = [context |-> ctx,
                                           resource |-> maybe.object,
                                           async |-> contexts[a]]]
       /\ asyncStack' = PushAsyncContext(asyncStack, ScopeEntry(a, maybe.object))
       /\ pushedBy' = pushedBy \o [i \in 1..(Len(asyncStack') - Len(asyncStack)) |-> p]
       /\ slot' = StoreResult(p)
       /\ released' = released \ {p}
       /\ live' = Append(live, [handle |-> slot', async |-> a, value |-> v,
                                pre |-> asyncStack, clean |-> TRUE,
                                hadInner |-> FALSE])
       /\ last' = OpenCall(a, v, slot', "ok")
       /\ violations' = IF ctx = NoContext THEN violations + 1 ELSE violations
       /\ UNCHANGED << context, contexts, status, misuse >>

\* Lines 20-24 from line 22 on: convert the resource, then construct.
OpenConverts(a, v, ctx) ==
  LET maybe == ToObject(Deref(V8LocalValueFromJsValue(v)))
  IN  IF maybe.empty THEN OpenAborts(a, v) ELSE OpenConstructs(a, v, ctx, maybe)

\* The whole call.  Nothing checks that an isolate and a context were
\* resolved: without them lines 20-22 read through a null isolate or an empty
\* context handle, which is undefined; the build either dies there or goes on
\* with the empty context.
extras_open_callback_scope(a, v) ==
  /\ status = "running"
  /\ GetCurrentContext = NoContext => violations < MaxViolations
  /\ LET ctx == GetCurrentContext
     IN  \/ ctx = NoContext /\ OpenDies(a, v, "crash")
         \/ OpenConverts(a, v, ctx)

\* --------------------------------------------- extras_close_callback_scope
CloseHistory(h, outcome) ==
  /\ live' = LiveAfterClose(h)
  /\ misuse' = (misuse \/ h \notin Handles(live))
  /\ violations' = IF Inner(h) THEN violations ELSE violations + 1
  /\ released' = IF DeleteRuns(h) THEN released \union {h} ELSE released
  /\ last' = CloseCall(h, outcome)

\* delete of the null pointer: nothing happens.
CloseNull(h) ==
  /\ CloseHistory(h, "ok")
  /\ UNCHANGED << context, heap, contexts, asyncStack, allocated, scopes, slot,
                  status, pushedBy >>

\* Mutant of CloseDestroys: the handle is deleted without the cast to
\* node::CallbackScope*, so the memory is released and no destructor runs.
CloseWithoutDestructor(h) ==
  /\ allocated' = Free(allocated, h)
  /\ scopes' = [scopes EXCEPT ![h] = NoScope]
  /\ CloseHistory(h, "ok")
  /\ UNCHANGED << context, heap, contexts, asyncStack, pushedBy, slot, status >>

\* delete of an allocated scope: its destructor pops the runtime's stack and
\* the object is deallocated.
CloseDestroys(h) ==
  /\ asyncStack' = PopAsyncContext(asyncStack, PopIndex(pushedBy, h))
  /\ pushedBy' = PopAsyncContext(pushedBy, PopIndex(pushedBy, h))
  /\ allocated' = Free(allocated, h)
  /\ scopes' = [scopes EXCEPT ![h] = NoScope]
  /\ CloseHistory(h, "ok")
  /\ UNCHANGED << context, heap, contexts, slot, status >>

\* delete of an address that holds no allocated scope (already deleted, or
\* never returned by new) is undefined: the process dies, or the destructor
\* runs on whatever the memory holds and pops the stack, or nothing visible
\* happens.
CloseDangling(h) ==
  /\ \/ /\ status' = "crashed"
        /\ CloseHistory(h, "crash")
        /\ UNCHANGED << asyncStack, pushedBy >>
     \/ /\ asyncStack' = PopAsyncContext(asyncStack, Len(asyncStack))
        /\ pushedBy' = PopAsyncContext(pushedBy, Len(pushedBy))
        /\ CloseHistory(h, "ok")
        /\ UNCHANGED status
     \/ /\ CloseHistory(h, "ok")
        /\ UNCHANGED << asyncStack, pushedBy, status >>
  /\ UNCHANGED << context, heap, contexts, allocated, scopes, slot >>

extras_close_callback_scope(h) ==
  /\ status = "running"
  /\ ~Inner(h) => violations < MaxViolations
  /\ IF ~DeleteRuns(h) THEN CloseNull(h)
     ELSE IF h \in allocated THEN CloseDestroys(h)
     ELSE CloseDangling(h)

\* ------------------------------------------------------ specification
Open == \E a \in AsyncContexts, v \in NapiValues : extras_open_callback_scope(a, v)
Close == \E h \in Addr \union {NULL} : extras_close_callback_scope(h)

Next == Open \/ Close

Spec == Init /\ [][Next]_vars

\* ------------------------------------------------------------- claims
\* The entry open(a, v) is expected to put on the stack; the resource is
\* compared only when v designates an object.
EntryMatches(e, a, v) ==
  /\ e.async = contexts[a]
  /\ IsObject(Deref(v)) => e.resource = Deref(v)

\* C1: closing the innermost open scope, when every call since its open was
\* an open or a close of the then-innermost scope (so: after N nested opens
\* and the closes of the inner N-1 in reverse order), succeeds and puts the
\* runtime's async-context stack back to what it was before that open, in
\* depth and contents.
C1_NestedClosesRestoreStack ==
  (last.op = "close" /\ last.inner /\ last.entry.clean)
    => (last.outcome = "ok" /\ asyncStack = last.entry.pre)

\* C1 witness: two nested opens and their two closes in reverse order are
\* done, and the stack is again the non-empty stack of before the first open.
C1_Witness ==
  /\ last.op = "close" /\ last.inner /\ last.outcome = "ok"
  /\ last.entry.clean /\ last.entry.hadInner
  /\ live = << >>
  /\ asyncStack = << RootEntry >>
  /\ last.entry.pre = << RootEntry >>

\* C2 (as claimed): an open whose resource value is not an object fails: it
\* does not return normally, constructs no scope and writes no handle.
C2_NonObjectOpenFails ==
  [][ (last'.op = "open" /\ ~IsObject(Deref(last'.value)))
        => (last'.outcome # "ok" /\ allocated' = allocated /\ slot' = slot) ]_vars

\* C3: as long as every close was given a handle that open returned and that
\* was not yet closed, the allocated scopes are exactly the handles open
\* returned and close has not taken, each once; no delete ran on an address
\* without an allocated scope; so with every handle closed nothing is
\* allocated.
C3_AllocatedAreTheOpenHandles ==
  ~misuse =>
    /\ allocated = Handles(live)
    /\ Cardinality(allocated) = Len(live)
    /\ last.wild = "no"
    /\ \A p \in Addr : p \in allocated <=> scopes[p] # NoScope

\* C3 witness: two scopes were opened and both closed, the outer one first,
\* every close naming an open handle; nothing is left allocated.
C3_Witness ==
  /\ ~misuse /\ context # NoContext /\ violations = 1
  /\ last.op = "close" /\ last.outcome = "ok"
  /\ live = << >> /\ allocated = {}

\* C4 (as claimed, granted that every close named an open handle): whenever
\* a scope S is the innermost open one, the top entry of the stack is the one
\* open(A, R) = S pushed.
C4_TopIsInnermostScope ==
  (~misuse /\ live # << >>) =>
    /\ asyncStack # << >>
    /\ EntryMatches(Top(asyncStack), Top(live).async, Top(live).value)

\* C4 (amended): for every open scope S = open(A, R) such that every call
\* since that open was an open or a close of the then-innermost scope, the
\* entry for A and R that the open pushed is still on the stack, right above
\* the entries that were there before the open, and it is the top entry when
\* S is the innermost open scope.
C4_EntryStaysWhileNested ==
  \A i \in DOMAIN live :
    live[i].clean =>
      LET k == Len(live[i].pre) + 1
      IN  /\ k <= Len(asyncStack)
          /\ SubSeq(asyncStack, 1, k - 1) = live[i].pre
          /\ EntryMatches(asyncStack[k], live[i].async, live[i].value)
          /\ pushedBy[k] = live[i].handle
          /\ i = Len(live) => k = Len(asyncStack)

\* C4 witness: a scope opened after S was closed again, S is still open and
\* its entry is the top one.
C4_Witness ==
  /\ last.op = "close" /\ last.inner /\ last.entry.clean
  /\ Len(live) = 1 /\ live[1].clean /\ live[1].hadInner
  /\ Top(pushedBy) = live[1].handle
  /\ Top(asyncStack).async = contexts[live[1].async]

\* C5: an open with an object-typed resource and a current context returns
\* normally with a non-null handle in the output slot that designates an
\* allocated scope, and the handles of the open scopes are pairwise distinct;
\* a close of an open handle returns normally.
C5_ValidCallsSucceed ==
  /\ (last.op = "open" /\ IsObject(Deref(last.value)) /\ context # NoContext)
       => /\ last.outcome = "ok"
          /\ last.handle # NULL
          /\ slot = last.handle
          /\ last.handle \in allocated
          /\ Top(live).handle = last.handle
  /\ ~misuse => Cardinality(Handles(live)) = Len(live)
  /\ (last.op = "close" /\ last.entry # NoEntry) => last.outcome = "ok"

\* C5 witness: a second scope was opened while the first is still open.
C5_Witness ==
  /\ last.op = "open" /\ last.outcome = "ok" /\ context # NoContext
  /\ IsObject(Deref(last.value))
  /\ Len(live) = 2 /\ live[1].handle # live[2].handle
  /\ violations = 0

C7_OpenWithoutContextFails ==
  [][ (last'.op = "open" /\ context = NoContext)
        => (last'.outcome # "ok" /\ allocated' = allocated /\ slot' = slot) ]_vars

\* C8: an open that fails leaves the allocated scopes, their contents, the
\* async-context stack, the objects and the output slot as they were.
C8_FailedOpenChangesNothing ==
  [][ (last'.op = "open" /\ last'.outcome # "ok")
        => /\ allocated' = allocated
           /\ scopes' = scopes
           /\ asyncStack' = asyncStack
           /\ heap' = heap
           /\ slot' = slot ]_vars

\* C8 witness: an open failed while a scope was open.
C8_Witness ==
  /\ last.op = "open" /\ last.outcome = "abort"
  /\ allocated # {} /\ asyncStack # << >> /\ slot # NULL

\* C9: every close of a non-null handle runs delete on it, whether or not
\* the handle designates an allocated scope, and no close is rejected.
C9_CloseDeletesUnchecked ==
  last.op = "close" =>
    /\ last.outcome \in {"ok", "crash"}
    /\ last.handle # NULL => last.handle \in released
    /\ (last.handle # NULL /\ last.entry = NoEntry) => last.wild # "no"

\* C9 witness: delete ran a second time on a scope that was already closed,
\* and the call returned.
C9_Witness ==
  last.op = "close" /\ last.wild = "twice" /\ last.outcome = "ok"

\* C10: a close of an open scope that is not the innermost one, made when the
\* open scopes were properly nested, returns normally and leaves a stack whose
\* top entry is not the one the innermost open scope pushed.
C10_OutOfOrderCloseCorruptsStack ==
  (last.op = "close" /\ last.entry # NoEntry /\ ~last.inner /\ last.entry.clean)
    => /\ last.outcome = "ok"
       /\ live # << >>
       /\ Len(asyncStack) = Len(pushedBy)
       /\ asyncStack = << >> \/ Top(pushedBy) # Top(live).handle

\* C10 witness: S1 and S2 were opened for different async contexts, S1 was
\* closed first, and the top entry is S1's, not S2's.
C10_Witness ==
  /\ last.op = "close" /\ last.entry # NoEntry /\ ~last.inner /\ last.entry.clean
  /\ Len(live) = 1 /\ asyncStack # << >>
  /\ Top(pushedBy) = last.handle
  /\ Top(live).async # last.entry.async
  /\ Top(asyncStack).async = contexts[last.entry.async]

====
